---- MODULE Spec2Model ----
(***************************************************************************)
(* A model of roconfiguration: the key-path override resolver              *)
(* (apply_key_value) and the Configuration facade.                         *)
(*                                                                         *)
(* Python strings that the code inspects character by character (override *)
(* keys and their segments) are sequences of one-character strings.        *)
(* Python objects with identity (dict, list) live in a heap addressed by   *)
(* object ids, so that aliasing between the backing structure and the      *)
(* facades is what the code makes it.                                      *)
(***************************************************************************)
EXTENDS Integers, Sequences, FiniteSets, TLC

(***************************************************************************)
(* Bounds of the model.                                                    *)
(***************************************************************************)
\* number of add_value calls in one behaviour
MaxOps == 1
\* longest generated key path, in segments
MaxSegs == 4

(***************************************************************************)
(* Strings.                                                                *)
(***************************************************************************)
\* key.strip("_:") strips these characters from both ends
StripChars == {"_", ":"}

RECURSIVE LStrip(_)
LStrip(s) == IF s # <<>> /\ Head(s) \in StripChars THEN LStrip(Tail(s)) ELSE s

RECURSIVE RStrip(_)
RStrip(s) ==
  IF s # <<>> /\ s[Len(s)] \in StripChars
  THEN RStrip(SubSeq(s, 1, Len(s) - 1))
  ELSE s

\* str.strip("_:")
Strip(s) == RStrip(LStrip(s))

\* the positions at which tok occurs in s
Occurrences(s, tok) ==
  {i \in 1..(Len(s) - Len(tok) + 1) : SubSeq(s, i, i + Len(tok) - 1) = tok}

\* token in key
Contains(s, tok) == Occurrences(s, tok) # {}

\* str.split(token): left to right, non-overlapping
RECURSIVE Split(_, _)
Split(s, tok) ==
  IF ~Contains(s, tok)
  THEN <<s>>
  ELSE LET i == CHOOSE j \in Occurrences(s, tok) :
                  \A k \in Occurrences(s, tok) : j <= k
       IN <<SubSeq(s, 1, i - 1)>> \o Split(SubSeq(s, i + Len(tok), Len(s)), tok)

\* the delimiters, in the order of the loop `for token in (":", "__")`
Colon == <<":">>
DoubleUnderscore == <<"_", "_">>

Digits == {"0", "1", "2", "3", "4", "5", "6", "7", "8", "9"}

DigitVal(c) ==
  CASE c = "0" -> 0 [] c = "1" -> 1 [] c = "2" -> 2 [] c = "3" -> 3
    [] c = "4" -> 4 [] c = "5" -> 5 [] c = "6" -> 6 [] c = "7" -> 7
    [] c = "8" -> 8 [] c = "9" -> 9

\* digits, with single underscores allowed between two digits
IsDigitRun(s) ==
  /\ s # <<>>
  /\ \A i \in 1..Len(s) :
       \/ s[i] \in Digits
       \/ /\ s[i] = "_"
          /\ 1 < i /\ i < Len(s)
          /\ s[i - 1] \in Digits /\ s[i + 1] \in Digits

\* int(part) does not raise ValueError: an optional sign, then a digit run
IsInt(s) ==
  /\ s # <<>>
  /\ IF Head(s) \in {"-", "+"} THEN IsDigitRun(Tail(s)) ELSE IsDigitRun(s)

RECURSIVE DigitRunVal(_, _)
DigitRunVal(s, acc) ==
  IF s = <<>> THEN acc
  ELSE IF Head(s) = "_" THEN DigitRunVal(Tail(s), acc)
  ELSE DigitRunVal(Tail(s), 10 * acc + DigitVal(Head(s)))

\* int(part), for a part that IsInt
ToInt(s) ==
  IF Head(s) = "-" THEN 0 - DigitRunVal(Tail(s), 0)
  ELSE IF Head(s) = "+" THEN DigitRunVal(Tail(s), 0)
  ELSE DigitRunVal(s, 0)

(***************************************************************************)
(* Values and the heap.                                                    *)
(*                                                                         *)
(* A cell is what a variable, a dict entry or a list slot holds: a scalar  *)
(* (ref = 0, s its value) or a reference to a heap object (ref > 0).       *)
(* Scalars are named by their Python literal: "None", "0", "x", ...        *)
(* A heap object is a dict (m: key -> cell) or a list (l: sequence of      *)
(* cells).                                                                 *)
(***************************************************************************)
Scalar(s) == [ref |-> 0, s |-> s]
Ref(i) == [ref |-> i, s |-> ""]

DictObj(m) == [t |-> "dict", m |-> m, l |-> <<>>]
ListObj(l) == [t |-> "list", m |-> <<>>, l |-> l]

\* isinstance(x, abc.Mapping)
IsMapping(h, c) == c.ref # 0 /\ h[c.ref].t = "dict"

\* isinstance(x, abc.MutableSequence)
IsMutableSequence(h, c) == c.ref # 0 /\ h[c.ref].t = "list"

\* the id of the next allocated object
NewId(h) == Cardinality(DOMAIN h) + 1

\* d[k] = c on the dict with id d
DictSet(h, d, k, c) ==
  [h EXCEPT ![d].m = [x \in (DOMAIN h[d].m) \cup {k} |->
                         IF x = k THEN c ELSE h[d].m[x]]]

\* the 1-based position list[index] addresses, 0 when Python raises IndexError
\* (a negative index counts from the end)
ListPos(len, index) ==
  IF 0 <= index /\ index < len THEN index + 1
  ELSE IF index < 0 /\ 0 - index <= len THEN len + index + 1
  ELSE 0

\* the exceptions a call can end in; NoExc is a normal return
NoExc == "none"
OverrideError == "ConfigurationOverrideError"
IndexErr == "IndexError"
TypeErr == "TypeError"
KeyErr == "KeyError"

Outcome(h, e) == [heap |-> h, exc |-> e]

(***************************************************************************)
(* apply_key_value.                                                        *)
(***************************************************************************)
\* a slip in AssignSequence: the value is inserted before the addressed slot
AssignSequenceInserting(h, sub, last_part, value) ==
  IF ~IsInt(last_part)
  THEN Outcome(h, OverrideError)
  ELSE LET pos == ListPos(Len(h[sub.ref].l), ToInt(last_part))
           l == h[sub.ref].l
       IN IF pos = 0
          THEN Outcome(h, OverrideError)
          ELSE Outcome([h EXCEPT ![sub.ref].l =
                          SubSeq(l, 1, pos - 1) \o <<value>> \o SubSeq(l, pos, Len(l))],
                       NoExc)

\* a slip in AssignSequence: the slots after the assigned one are dropped
AssignSequenceTruncating(h, sub, last_part, value) ==
  IF ~IsInt(last_part)
  THEN Outcome(h, OverrideError)
  ELSE LET pos == ListPos(Len(h[sub.ref].l), ToInt(last_part))
       IN IF pos = 0
          THEN Outcome(h, OverrideError)
          ELSE Outcome([h EXCEPT ![sub.ref].l =
                          Append(SubSeq(h[sub.ref].l, 1, pos - 1), value)], NoExc)

\* the final assignment when sub_property is a mutable sequence
AssignSequence(h, sub, last_part, value) ==
  IF ~IsInt(last_part)
  THEN Outcome(h, OverrideError)
  ELSE LET pos == ListPos(Len(h[sub.ref].l), ToInt(last_part))
       IN IF pos = 0
          \* IndexError is caught and raised again as an override error
          THEN Outcome(h, OverrideError)
          ELSE Outcome([h EXCEPT ![sub.ref].l[pos] = value], NoExc)

\* the final assignment when sub_property is no mutable sequence
AssignItem(h, sub, last_part, value) ==
  IF IsMapping(h, sub)
  THEN Outcome(DictSet(h, sub.ref, last_part, value), NoExc)
  \* item assignment on a scalar raises TypeError, which is caught
  ELSE Outcome(h, OverrideError)

\* the assignment to the last part, after the walk has reached sub_property
AssignLast(h, sub, last_part, value) ==
  IF IsMutableSequence(h, sub)
  THEN AssignSequence(h, sub, last_part, value)
  ELSE AssignItem(h, sub, last_part, value)

Step(h, sub, e) == [heap |-> h, sub |-> sub, exc |-> e]

\* the walk through a mutable sequence: int(part), then sub_property[index],
\* whose IndexError nothing catches
DescendSequence(h, sub, part) ==
  IF ~IsInt(part)
  THEN Step(h, sub, OverrideError)
  ELSE LET pos == ListPos(Len(h[sub.ref].l), ToInt(part))
       IN IF pos = 0
          THEN Step(h, sub, IndexErr)
          ELSE Step(h, h[sub.ref].l[pos], NoExc)

\* a slip in Vivify: the new mapping is walked into but never stored at part
VivifyUnlinked(h, sub, part) ==
  Step(Append(h, DictObj(<<>>)), Ref(NewId(h)), NoExc)

\* the KeyError branch: sub_property[part] = {}, and the walk goes into it
Vivify(h, sub, part) ==
  LET n == NewId(h)
  IN Step(DictSet(Append(h, DictObj(<<>>)), sub.ref, part, Ref(n)), Ref(n), NoExc)

\* a slip in DescendItem: the shorter key's value is replaced by an empty
\* mapping before the override error is raised
DescendItemReplacing(h, sub, part) ==
  IF ~IsMapping(h, sub)
  THEN Step(h, sub, TypeErr)
  ELSE IF part \notin DOMAIN h[sub.ref].m
       THEN Vivify(h, sub, part)
       ELSE LET found == h[sub.ref].m[part]
            IN IF ~IsMapping(h, found) /\ ~IsMutableSequence(h, found)
               THEN Step(Vivify(h, sub, part).heap, found, OverrideError)
               ELSE Step(h, found, NoExc)

\* the walk through anything else: sub_property[part]
DescendItem(h, sub, part) ==
  IF ~IsMapping(h, sub)
  \* subscripting a scalar with a str raises TypeError, not KeyError
  THEN Step(h, sub, TypeErr)
  ELSE IF part \notin DOMAIN h[sub.ref].m
       THEN Vivify(h, sub, part)
       ELSE LET found == h[sub.ref].m[part]
            IN IF ~IsMapping(h, found) /\ ~IsMutableSequence(h, found)
               THEN Step(h, found, OverrideError)
               ELSE Step(h, found, NoExc)

\* one iteration of `for part in parts[:-1]`: the heap and cursor after it
WalkStep(h, sub, part) ==
  IF IsMutableSequence(h, sub)
  THEN DescendSequence(h, sub, part)
  ELSE DescendItem(h, sub, part)

\* the loop over parts[:-1] from position i, then the final assignment
RECURSIVE Walk(_, _, _, _, _)
Walk(h, sub, parts, i, value) ==
  IF i = Len(parts)
  THEN AssignLast(h, sub, parts[i], value)
  ELSE LET r == WalkStep(h, sub, parts[i])
       IN IF r.exc # NoExc
          THEN Outcome(r.heap, r.exc)
          ELSE Walk(r.heap, r.sub, parts, i + 1, value)

\* the parts the key is split into: on the first token, in the order
\* (":", "__"), that the stripped key contains; the stripped key alone otherwise
KeyParts(rawkey) ==
  LET key == Strip(rawkey)
  IN IF Contains(key, Colon) THEN Split(key, Colon)
     ELSE IF Contains(key, DoubleUnderscore) THEN Split(key, DoubleUnderscore)
     ELSE <<key>>

\* a slip in apply_key_value: the key is used as given, never stripped
apply_key_value_unstripped(h, obj, rawkey, value) ==
  IF Contains(rawkey, Colon)
  THEN Walk(h, Ref(obj), Split(rawkey, Colon), 1, value)
  ELSE IF Contains(rawkey, DoubleUnderscore)
       THEN Walk(h, Ref(obj), Split(rawkey, DoubleUnderscore), 1, value)
       ELSE Outcome(DictSet(h, obj, rawkey, value), NoExc)

\* apply_key_value(obj, key, value), obj the dict with id obj
apply_key_value(h, obj, rawkey, value) ==
  LET key == Strip(rawkey)
  IN IF Contains(key, Colon)
     THEN Walk(h, Ref(obj), Split(key, Colon), 1, value)
     ELSE IF Contains(key, DoubleUnderscore)
          THEN Walk(h, Ref(obj), Split(key, DoubleUnderscore), 1, value)
          ELSE Outcome(DictSet(h, obj, key, value), NoExc)

(***************************************************************************)
(* The Configuration facade.                                               *)
(*                                                                         *)
(* What a read returns: a raw value (k = "raw", c the cell), a new         *)
(* Configuration instance (k = "facade", data its own __data, a dict that  *)
(* no other object references), or a new Python list of such results       *)
(* (k = "list").                                                           *)
(***************************************************************************)
RawResult(c) == [k |-> "raw", c |-> c, data |-> <<>>, items |-> <<>>]
FacadeResult(d) == [k |-> "facade", c |-> Scalar("None"), data |-> d, items |-> <<>>]
ListResult(xs) == [k |-> "list", c |-> Scalar("None"), data |-> <<>>, items |-> xs]

\* the scalars Python counts as false, None among them
FalsyScalars == {"None", "0", "False", ""}

\* `not arg`
Falsy(h, c) ==
  IF c.ref = 0 THEN c.s \in FalsyScalars
  ELSE IF h[c.ref].t = "dict" THEN DOMAIN h[c.ref].m = {}
  ELSE Len(h[c.ref].l) = 0

\* a slip in Configuration(arg): __init__ never merges the mapping it is given
RECURSIVE NewConfigurationUnmerged(_, _)
NewConfigurationUnmerged(h, arg) ==
  IF Falsy(h, arg) THEN FacadeResult(<<>>)
  ELSE IF IsMapping(h, arg) THEN FacadeResult(<<>>)
  ELSE IF IsMutableSequence(h, arg)
       THEN ListResult([i \in 1..Len(h[arg.ref].l) |->
                          NewConfigurationUnmerged(h, h[arg.ref].l[i])])
  ELSE RawResult(arg)

\* Configuration(arg): __new__, and __init__ when __new__ returned an instance.
\* __init__ starts from an empty __data and add_map copies the entries of a
\* non-empty mapping into it.
RECURSIVE NewConfiguration(_, _)
NewConfiguration(h, arg) ==
  IF Falsy(h, arg) THEN FacadeResult(<<>>)
  ELSE IF IsMapping(h, arg) THEN FacadeResult(h[arg.ref].m)
  ELSE IF IsMutableSequence(h, arg)
       THEN ListResult([i \in 1..Len(h[arg.ref].l) |->
                          NewConfiguration(h, h[arg.ref].l[i])])
  ELSE RawResult(arg)

\* Configuration.__contains__ on a configuration whose __data is data
Contained(data, item) == item \in DOMAIN data

\* Configuration.__getattr__(name), default None
GetAttrOf(h, data, name) ==
  IF name \in DOMAIN data
  THEN LET value == data[name]
       IN IF IsMapping(h, value) \/ IsMutableSequence(h, value)
          THEN NewConfiguration(h, value)
          ELSE RawResult(value)
  ELSE RawResult(Scalar("None"))

\* `value is None`
IsNone(r) == r.k = "raw" /\ r.c = Scalar("None")

\* Configuration.__getitem__(name): the result, and KeyError or no exception
GetItemOf(h, data, name) ==
  LET value == GetAttrOf(h, data, name)
  IN IF IsNone(value)
     THEN [result |-> value, exc |-> KeyErr]
     ELSE [result |-> value, exc |-> NoExc]

\* what a read failed on when it met something that has no such attribute or item
ReadError == [k |-> "error", c |-> Scalar("None"), data |-> <<>>, items |-> <<>>]

\* a caller's chain of reads r.s1.s2...: attribute access on a Configuration,
\* integer indexing on a list
RECURSIVE ReadPath(_, _, _)
ReadPath(h, r, segs) ==
  IF segs = <<>> THEN r
  ELSE IF r.k = "facade"
       THEN ReadPath(h, GetAttrOf(h, r.data, Head(segs)), Tail(segs))
  ELSE IF r.k = "list" /\ IsInt(Head(segs))
          /\ ListPos(Len(r.items), ToInt(Head(segs))) # 0
       THEN ReadPath(h, r.items[ListPos(Len(r.items), ToInt(Head(segs)))],
                     Tail(segs))
  ELSE ReadError

(***************************************************************************)
(* The state.                                                              *)
(***************************************************************************)
VARIABLES
  heap,   \* the objects: heap[Root] is the configuration's __data
  prev,   \* the heap as it was when the most recent call began
  call,   \* the most recent call: its name, arguments and how it ended
  nops,   \* the number of add_value calls made so far
  got,    \* what the most recent read returned
  child   \* the child facade the caller holds on to, if any

vars == <<heap, prev, call, nops, got, child>>

\* the id of the dict self.__data of the configuration
Root == 1

ka == <<"a">>
kb == <<"b">>

\* the structures a configuration is constructed from, as heaps:
\* Configuration(source) copies the top-level entries of source into __data
InitHeaps ==
  { \* {}
    <<DictObj(<<>>)>>,
    \* {b: 'y'}
    <<DictObj(kb :> Scalar("y"))>>,
    \* {a: None, b: 'x'}
    <<DictObj((ka :> Scalar("None")) @@ (kb :> Scalar("x")))>>,
    \* {a: []}
    <<DictObj(ka :> Ref(2)), ListObj(<<>>)>>,
    \* {a: ['x', 0]}
    <<DictObj(ka :> Ref(2)), ListObj(<<Scalar("x"), Scalar("0")>>)>>,
    \* {a: [{b: 'x'}, {b: 'y'}]}
    <<DictObj(ka :> Ref(2)), ListObj(<<Ref(3), Ref(4)>>),
      DictObj(kb :> Scalar("x")), DictObj(kb :> Scalar("y"))>>,
    \* {a: [['x'], None]}
    <<DictObj(ka :> Ref(2)), ListObj(<<Ref(3), Scalar("None")>>),
      ListObj(<<Scalar("x")>>)>>,
    \* {a: {b: {b: 'x'}}, b: 'y'}
    <<DictObj((ka :> Ref(2)) @@ (kb :> Scalar("y"))), DictObj(kb :> Ref(3)),
      DictObj(kb :> Scalar("x"))>>,
    \* {a: {b: ['x']}}
    <<DictObj(ka :> Ref(2)), DictObj(kb :> Ref(3)), ListObj(<<Scalar("x")>>)>> }

(***************************************************************************)
(* The inputs: override keys and values.                                   *)
(***************************************************************************)
\* the segments keys are made of below the top level: a name, an index and
\* a negative number
InnerSegs == {kb, <<"0">>, <<"-", "1">>}

\* the key paths of n segments: a top-level name, then segments of segs
RECURSIVE PathsOfLen(_, _)
PathsOfLen(segs, n) ==
  IF n = 1 THEN {<<ka>>}
  ELSE {Append(p, x) : p \in PathsOfLen(segs, n - 1), x \in segs}

\* the key paths of up to MaxSegs segments
Paths(segs) == UNION {PathsOfLen(segs, n) : n \in 1..MaxSegs}

RECURSIVE Join(_, _)
Join(p, d) ==
  IF Len(p) = 1 THEN p[1] ELSE p[1] \o d \o Join(Tail(p), d)

\* the paths joined by ":"
ColonKeys == {Join(p, Colon) : p \in Paths(InnerSegs)}

\* a and a, b joined by either delimiter, as they are and with boundary
\* characters before and after them
ShortKeys ==
  {pre \o Join(p, d) \o post :
     p \in {<<ka>>, <<ka, kb>>},
     d \in {Colon, DoubleUnderscore},
     pre \in {<<>>, <<"_">>}, post \in {<<>>, <<":">>, <<"_">>}}

\* keys made of boundary characters alone, and keys with two delimiters in a
\* row ("_" is the name of a variable every shell exports)
GapKeys ==
  { <<"_">>,
    <<":">>,
    ka \o Colon \o Colon \o kb,
    ka \o DoubleUnderscore \o DoubleUnderscore \o kb }

\* the raw keys add_value is given
Keys == ColonKeys \cup ShortKeys \cup GapKeys

\* the raw keys add_value is given where the reads are what is looked at:
\* paths of names and indices, joined by ":"
FacadeKeys == {Join(p, Colon) : p \in Paths({kb, <<"0">>})}

\* the values add_value is given: a str and the int 0
Values == {Scalar("v"), Scalar("0")}

\* the names the caller reads
ReadNames == {ka, kb}

NoCall == [op |-> "init", key |-> <<>>, value |-> Scalar("None"),
           exc |-> NoExc, exc1 |-> NoExc]

\* nothing read yet
NoResult == [k |-> "nothing", c |-> Scalar("None"), data |-> <<>>, items |-> <<>>]

\* no child facade held
NoChild == [held |-> FALSE, name |-> <<>>, data |-> <<>>, src |-> 0, at |-> <<>>]

Init ==
  /\ heap \in InitHeaps
  /\ prev = heap
  /\ call = NoCall
  /\ nops = 0
  /\ got = NoResult
  /\ child = NoChild

(***************************************************************************)
(* Configuration.add_value(name, value)                                    *)
(***************************************************************************)
AddValue(name, value) ==
  /\ nops < MaxOps
  /\ LET r == apply_key_value(heap, Root, name, value)
     IN /\ heap' = r.heap
        /\ call' = [op |-> "add_value", key |-> name, value |-> value,
                    exc |-> r.exc, exc1 |-> NoExc]
  /\ prev' = heap
  /\ nops' = nops + 1
  /\ got' = NoResult
  /\ UNCHANGED child

\* the same add_value call made a second time in a row
Repeat ==
  /\ call.op = "add_value"
  /\ LET r == apply_key_value(heap, Root, call.key, call.value)
     IN /\ heap' = r.heap
        /\ call' = [call EXCEPT !.op = "repeat", !.exc = r.exc, !.exc1 = call.exc]
  /\ prev' = heap
  /\ got' = NoResult
  /\ UNCHANGED <<nops, child>>

(***************************************************************************)
(* Reads through the facade.                                               *)
(***************************************************************************)
\* config.<name>, or getattr(config, name)
GetAttr(name) ==
  /\ got' = GetAttrOf(heap, heap[Root].m, name)
  /\ call' = [op |-> "getattr", key |-> name, value |-> Scalar("None"),
              exc |-> NoExc, exc1 |-> NoExc]
  /\ prev' = heap
  /\ UNCHANGED <<heap, nops, child>>

\* config[name]
GetItem(name) ==
  /\ LET r == GetItemOf(heap, heap[Root].m, name)
     IN /\ got' = r.result
        /\ call' = [op |-> "getitem", key |-> name, value |-> Scalar("None"),
                    exc |-> r.exc, exc1 |-> NoExc]
  /\ prev' = heap
  /\ UNCHANGED <<heap, nops, child>>

\* the caller keeps the Configuration that config.<name> has just returned for
\* a property that is a mapping
KeepChild ==
  /\ call.op = "getattr"
  /\ got.k = "facade"
  /\ IsMapping(heap, heap[Root].m[call.key])
  /\ ~child.held
  /\ child' = [held |-> TRUE, name |-> call.key, data |-> got.data,
               \* for the record: the mapping it was made from, and the heap then
               src |-> heap[Root].m[call.key].ref, at |-> heap]
  /\ UNCHANGED <<heap, prev, call, nops, got>>

\* after add_value with a path below the property the child was read from, the
\* caller reads that path through the child it holds (got.c would be the raw
\* result); call.exc1 tells whether a child obtained now returns the same
ReadChild ==
  /\ call.op = "add_value"
  /\ child.held
  /\ Len(KeyParts(call.key)) >= 2
  /\ KeyParts(call.key)[1] = child.name
  /\ LET rest == Tail(KeyParts(call.key))
         old == ReadPath(heap, FacadeResult(child.data), rest)
         new == ReadPath(heap, GetAttrOf(heap, heap[Root].m, child.name), rest)
     IN /\ got' = old
        /\ call' = [call EXCEPT !.op = "read_child",
                                !.exc1 = IF old = new THEN "same" ELSE "differs"]
  /\ UNCHANGED <<heap, prev, nops, child>>

Next ==
  \/ \E name \in Keys, value \in Values : AddValue(name, value)
  \/ Repeat

Spec == Init /\ [][Next]_vars

NextFacade ==
  \/ \E name \in FacadeKeys, value \in Values : AddValue(name, value)
  \/ \E name \in ReadNames : GetAttr(name)
  \/ \E name \in ReadNames : GetItem(name)
  \/ KeepChild
  \/ ReadChild

SpecFacade == Init /\ [][NextFacade]_vars

(***************************************************************************)
(* Notions the properties are stated in.                                   *)
(***************************************************************************)
\* the nested value a cell stands for, references followed
ScalarVal(x) == [t |-> "scalar", s |-> x, m |-> <<>>, l |-> <<>>]
DictVal(m) == [t |-> "dict", s |-> "", m |-> m, l |-> <<>>]
ListVal(l) == [t |-> "list", s |-> "", m |-> <<>>, l |-> l]

RECURSIVE Deep(_, _)
Deep(h, c) ==
  IF c.ref = 0 THEN ScalarVal(c.s)
  ELSE IF h[c.ref].t = "dict"
       THEN DictVal([k \in DOMAIN h[c.ref].m |-> Deep(h, h[c.ref].m[k])])
       ELSE ListVal([i \in 1..Len(h[c.ref].l) |-> Deep(h, h[c.ref].l[i])])

\* the whole backing structure
Backing(h) == Deep(h, Ref(Root))

\* a mapping value with key k set to value v
WithKey(m, k, v) == [x \in (DOMAIN m) \cup {k} |-> IF x = k THEN v ELSE m[x]]

\* {s1: {s2: ... {sn: v}}}, v itself when there are no segments
RECURSIVE Chain(_, _)
Chain(segs, v) ==
  IF segs = <<>> THEN v
  ELSE DictVal(Head(segs) :> Chain(Tail(segs), v))

\* where a path leads in h, from cell c, through existing entries only:
\* mapping keys, and indices from 0 to length - 1; Nowhere when it leads nowhere
Nowhere == [ref |-> 0 - 1, s |-> ""]

RECURSIVE Nav(_, _, _)
Nav(h, c, segs) ==
  IF segs = <<>> THEN c
  ELSE IF c.ref <= 0 THEN Nowhere
  ELSE IF h[c.ref].t = "dict"
       THEN IF Head(segs) \in DOMAIN h[c.ref].m
            THEN Nav(h, h[c.ref].m[Head(segs)], Tail(segs))
            ELSE Nowhere
  ELSE IF IsInt(Head(segs)) /\ 0 <= ToInt(Head(segs))
          /\ ToInt(Head(segs)) < Len(h[c.ref].l)
       THEN Nav(h, h[c.ref].l[ToInt(Head(segs)) + 1], Tail(segs))
  ELSE Nowhere

\* the parts of the key of the most recent add_value call
Parts == KeyParts(call.key)

\* the cell the first j parts led to when the most recent call began
Reached(j) == Nav(prev, Ref(Root), SubSeq(Parts, 1, j))

\* the most recent call was add_value
Added == call.op = "add_value"

(***************************************************************************)
(* C1. Auto-vivification: after add_value with a key of n >= 2 parts whose *)
(* first part was no key of the root, the call has succeeded, n - 1 new    *)
(* mappings were created, and the root is as before except that the first  *)
(* part now holds the chain of mappings ending in the value.               *)
(***************************************************************************)
C1_AutoVivification ==
  (Added /\ Len(Parts) >= 2 /\ Parts[1] \notin DOMAIN prev[Root].m)
    => /\ call.exc = NoExc
       /\ Len(heap) = Len(prev) + Len(Parts) - 1
       /\ Backing(heap) =
            DictVal(WithKey(Backing(prev).m, Parts[1],
                            Chain(Tail(Parts), Deep(heap, call.value))))

\* a three-part key has been applied to a root that held another key but not
\* the key's first part
C1_Witness ==
  /\ Added
  /\ Len(Parts) = 3
  /\ Parts[1] \notin DOMAIN prev[Root].m
  /\ kb \in DOMAIN prev[Root].m
  /\ call.exc = NoExc

\* c is a list, respectively a dict, of h
SeqAt(h, c) == c.ref > 0 /\ h[c.ref].t = "list"
MapAt(h, c) == c.ref > 0 /\ h[c.ref].t = "dict"

\* part j addresses, by an index within bounds, the sequence that the parts
\* before it led to
InBounds(j) ==
  /\ SeqAt(prev, Reached(j - 1))
  /\ IsInt(Parts[j])
  /\ 0 <= ToInt(Parts[j])
  /\ ToInt(Parts[j]) < Len(prev[Reached(j - 1).ref].l)

\* the call left every object but the one with id target as it was, and
\* created none
OnlyChanged(target) ==
  /\ Len(heap) = Len(prev)
  /\ \A id \in DOMAIN prev : id # target => heap[id] = prev[id]

(***************************************************************************)
(* C2. Overriding through a sequence is in place and local: when a part    *)
(* addresses an existing sequence at an index within bounds, then          *)
(*  - as the last part, the call succeeds and replaces that slot alone;    *)
(*  - as the part before the last, the element being a mapping, the call   *)
(*    succeeds and sets the last part's key in that element alone;         *)
(*  - wherever it stands, a call that succeeds leaves the length of the    *)
(*    sequence and every other element as they were.                       *)
(***************************************************************************)
C2_SequenceOverrideLocal ==
  Added =>
    \A j \in 2..Len(Parts) :
      InBounds(j) =>
        LET n == Len(Parts)
            seq == Reached(j - 1).ref
            i == ToInt(Parts[j]) + 1
            elem == prev[seq].l[i]
        IN /\ (j = n) =>
                /\ call.exc = NoExc
                /\ heap[seq].l = [prev[seq].l EXCEPT ![i] = call.value]
                /\ OnlyChanged(seq)
           /\ (j = n - 1 /\ MapAt(prev, elem)) =>
                /\ call.exc = NoExc
                /\ heap[elem.ref].m = WithKey(prev[elem.ref].m, Parts[n], call.value)
                /\ OnlyChanged(elem.ref)
           /\ (call.exc = NoExc) =>
                /\ Len(heap[seq].l) = Len(prev[seq].l)
                /\ \A k \in 1..Len(prev[seq].l) :
                     k # i => Deep(heap, heap[seq].l[k]) = Deep(prev, prev[seq].l[k])

\* a key was set inside the first of two mappings of a sequence
C2_Witness ==
  /\ Added
  /\ Len(Parts) = 3
  /\ InBounds(2)
  /\ Parts[2] = <<"0">>
  /\ Len(prev[Reached(1).ref].l) = 2
  /\ MapAt(prev, Reached(2))
  /\ call.exc = NoExc
  /\ heap # prev

(***************************************************************************)
(* C3. An index beyond the end of a sequence is always the same override   *)
(* error and never grows the sequence: when a numeric part addresses a     *)
(* sequence at an index >= its length, as the last part or as one before   *)
(* it, the call ends in ConfigurationOverrideError and the sequence keeps  *)
(* its length.                                                             *)
(***************************************************************************)
C3_OutOfBoundsIsOverrideError ==
  Added =>
    \A j \in 2..Len(Parts) :
      (/\ SeqAt(prev, Reached(j - 1))
       /\ IsInt(Parts[j])
       /\ ToInt(Parts[j]) >= Len(prev[Reached(j - 1).ref].l))
        => /\ call.exc = OverrideError
           /\ Len(heap[Reached(j - 1).ref].l) = Len(prev[Reached(j - 1).ref].l)

\* a minus sign followed by digits
IsNegativeLiteral(s) ==
  /\ Len(s) >= 2
  /\ s[1] = "-"
  /\ \A i \in 2..Len(s) : s[i] \in Digits

(***************************************************************************)
(* C4. No wraparound: when a part that is a negative integer literal       *)
(* addresses a sequence, as the last part or as one before it, the call    *)
(* ends in ConfigurationOverrideError and the backing structure is as it   *)
(* was. It is stated for the sequences that have an element to count from  *)
(* the end, those of at least as many elements as the literal counts back; *)
(* what becomes of an index that addresses no element at all is C3's.      *)
(***************************************************************************)
C4_NegativeIndexRejected ==
  Added =>
    \A j \in 2..Len(Parts) :
      (/\ SeqAt(prev, Reached(j - 1))
       /\ IsNegativeLiteral(Parts[j])
       /\ 0 - ToInt(Parts[j]) <= Len(prev[Reached(j - 1).ref].l))
        => /\ call.exc = OverrideError
           /\ Backing(heap) = Backing(prev)

(***************************************************************************)
(* C5. A longer path never overrides a scalar: when a part other than the  *)
(* last leads to an existing scalar, at any depth, the call ends in        *)
(* ConfigurationOverrideError and the backing structure is as it was.      *)
(***************************************************************************)
C5_ScalarNotOverridden ==
  Added =>
    \A j \in 1..(Len(Parts) - 1) :
      (Reached(j).ref = 0)
        => /\ call.exc = OverrideError
           /\ Backing(heap) = Backing(prev)

\* the most recent call was add_value with a non-empty key that contains
\* neither delimiter
AddedFlat ==
  /\ Added
  /\ call.key # <<>>
  /\ ~Contains(call.key, Colon)
  /\ ~Contains(call.key, DoubleUnderscore)

\* the call did what root[k] = value does
AssignedAtTop(k) ==
  /\ call.exc = NoExc
  /\ heap = DictSet(prev, Root, k, call.value)

(***************************************************************************)
(* C6, as claimed. add_value with a non-empty key that contains neither    *)
(* ":" nor "__" is the assignment root[key] = value, key as given.         *)
(***************************************************************************)
C6_RawKeyAssigned == AddedFlat => AssignedAtTop(call.key)

(***************************************************************************)
(* C6, amended. add_value with a non-empty key that contains neither ":"   *)
(* nor "__" is the assignment root[k] = value, k being the key without its *)
(* leading and trailing "_" characters: whatever root held at k is         *)
(* discarded, no error is raised, and nothing else changes.                *)
(***************************************************************************)
C6_TrimmedKeyAssigned ==
  AddedFlat => AssignedAtTop(Strip(call.key))

\* "_a" has been applied to a root whose a was a mapping
C6_Witness ==
  /\ AddedFlat
  /\ call.key = <<"_", "a">>
  /\ ka \in DOMAIN prev[Root].m
  /\ kb \in DOMAIN prev[Root].m
  /\ MapAt(prev, prev[Root].m[ka])
  /\ heap[Root].m[ka] = call.value

(***************************************************************************)
(* C7. Idempotence: the same add_value call made a second time in a row    *)
(* ends as the first did and leaves the backing structure as the first     *)
(* left it.                                                                *)
(***************************************************************************)
C7_Idempotent ==
  (call.op = "repeat")
    => /\ call.exc = call.exc1
       /\ Backing(heap) = Backing(prev)

\* a call that went through a sequence and created a key was made twice
C7_Witness ==
  /\ call.op = "repeat"
  /\ call.exc = NoExc
  /\ Len(Parts) = 4
  /\ SeqAt(heap, Nav(heap, Ref(Root), SubSeq(Parts, 1, 1)))
  /\ Nav(heap, Ref(Root), Parts) = call.value

(***************************************************************************)
(* C8. Facade reads keep leaves raw: a read of a top-level mapping or      *)
(* sequence does not return the stored container itself; in what it        *)
(* returns every mapping is a facade, and every scalar, the elements of    *)
(* sequences included, is the stored scalar.                               *)
(***************************************************************************)
RECURSIVE Presented(_, _, _)
Presented(h, c, r) ==
  IF c.ref = 0 THEN r = RawResult(c)
  ELSE IF h[c.ref].t = "dict" THEN r.k = "facade"
  ELSE /\ r.k # "raw"
       /\ (r.k = "list") =>
            /\ Len(r.items) = Len(h[c.ref].l)
            /\ \A i \in 1..Len(r.items) : Presented(h, h[c.ref].l[i], r.items[i])

C8_LeavesStayRaw ==
  (/\ call.op = "getattr"
   /\ call.key \in DOMAIN heap[Root].m
   /\ heap[Root].m[call.key].ref > 0)
    => Presented(heap, heap[Root].m[call.key], got)

\* the most recent call was a read, through the child held, of the path that
\* an add_value call which succeeded had just set
ReadBack == call.op = "read_child" /\ call.exc = NoExc

\* the mapping the child was made from held, under the first part below the
\* property, a mapping or sequence, and the property still holds it there
SharedBelow ==
  LET rest == Tail(Parts)
      now == heap[Root].m[child.name]
  IN /\ Len(rest) >= 2
     /\ rest[1] \in DOMAIN child.at[child.src].m
     /\ child.at[child.src].m[rest[1]].ref > 0
     /\ now = Ref(child.src)
     /\ rest[1] \in DOMAIN heap[child.src].m
     /\ heap[child.src].m[rest[1]] = child.at[child.src].m[rest[1]]

C10_StrictFailsIffAbsent ==
  /\ (call.op = "getitem") =>
       /\ (call.exc = KeyErr) <=> ~Contained(heap[Root].m, call.key)
       /\ Contained(heap[Root].m, call.key) =>
            got = GetAttrOf(heap, heap[Root].m, call.key)
  /\ (call.op = "getattr" /\ ~Contained(heap[Root].m, call.key)) =>
       (call.exc = NoExc /\ IsNone(got))

(***************************************************************************)
(* C11. The parsed key path: the raw key of every add_value call, trimmed  *)
(* of "_" and ":" at both ends and split on the one delimiter honoured,    *)
(* is a sequence of at least one part in which no part is the empty        *)
(* string; and no mapping of the backing structure has the empty string    *)
(* as a key after the call when none had before.                           *)
(***************************************************************************)
\* some mapping of h has the empty string as a key
HasEmptyKey(h) ==
  \E o \in DOMAIN h : h[o].t = "dict" /\ <<>> \in DOMAIN h[o].m

C11_SegmentsNonEmpty ==
  (Added /\ ~HasEmptyKey(prev))
    => /\ Len(Parts) >= 1
       /\ \A i \in 1..Len(Parts) : Parts[i] # <<>>
       /\ ~HasEmptyKey(heap)

(***************************************************************************)
(* C12. Failed overrides are atomic: when an add_value call has ended in   *)
(* an error, every object is as it was when the call began and none was    *)
(* created; no mapping made by auto-vivification is left behind.           *)
(***************************************************************************)
\* the most recent add_value call, first or repeated, ended in an error
Failed == call.op \in {"add_value", "repeat"} /\ call.exc # NoExc

C12_FailureLeavesNoTrace ==
  Failed => heap = prev

\* a call failed on its third part or later, after walking through containers
\* of a root that held its first part
C12_Witness ==
  /\ Added
  /\ call.exc = OverrideError
  /\ Len(Parts) >= 3
  /\ Reached(2) # Nowhere
  /\ Reached(2).ref > 0

====
